---- MODULE Spec2Model ----
(***************************************************************************)
(* Model of the Python-Module-05 exercises:                                *)
(*   ex2/nexus_pipeline.py  stages, ProcessingPipeline, adapters, manager  *)
(*   ex1/data_stream.py     DataStream hierarchy and StreamProcessor       *)
(*   ex0/stream_processor.py and test.py  the two DataProcessor variants   *)
(* Python values are tagged records; an operation that can raise returns   *)
(* a record [ok, v] where ok = FALSE stands for a raised Exception.        *)
(***************************************************************************)
EXTENDS Integers, Sequences, FiniteSets, TLC

(***************************************************************************)
(* Bounds of the model.                                                    *)
(***************************************************************************)
MaxStages == 2
MaxRuns == 2
MaxRegistered == 1

(***************************************************************************)
(* Python values used by ex2.  Scalars (dict values, list elements) are    *)
(* [k, n, q, s]: kind, numerator, denominator, text.  Values are           *)
(* [t, d, l, s]: type tag, dict payload, list payload, str payload.  A str *)
(* is a sequence of atoms; the atom "," is the comma character and every   *)
(* other atom is a comma-free word.                                        *)
(***************************************************************************)
ScNone == [k |-> "none", n |-> 0, q |-> 1, s |-> ""]
ScInt(n) == [k |-> "int", n |-> n, q |-> 1, s |-> ""]
ScFloat(n, q) == [k |-> "float", n |-> n, q |-> q, s |-> ""]
ScStr(s) == [k |-> "str", n |-> 0, q |-> 1, s |-> s]

NoDict == [k \in {} |-> ScNone]
PyNone == [t |-> "none", d |-> NoDict, l |-> <<>>, s |-> <<>>]
PyDict(d) == [t |-> "dict", d |-> d, l |-> <<>>, s |-> <<>>]
PyList(l) == [t |-> "list", d |-> NoDict, l |-> l, s |-> <<>>]
PyStr(s) == [t |-> "str", d |-> NoDict, l |-> <<>>, s |-> s]
PyInt(n) == [t |-> "int", d |-> NoDict, l |-> <<ScInt(n)>>, s |-> <<>>]

Ok(v) == [ok |-> TRUE, v |-> v, exc |-> ""]
Raise(v, exc) == [ok |-> FALSE, v |-> v, exc |-> exc]

\* the classes 'except Exception' catches, among those the model raises
ExceptionClasses ==
    {"ValueError", "TypeError", "KeyError", "ZeroDivisionError",
     "AttributeError", "OverflowError"}

HasKey(data, key) == data.t = "dict" /\ key \in DOMAIN data.d

SetItem(d, key, val) ==
    [k \in DOMAIN d \cup {key} |-> IF k = key THEN val ELSE d[k]]

(***************************************************************************)
(* The inputs the callers hand to process / execute / process_data.        *)
(***************************************************************************)
DictReading == [k \in {"sensor", "value", "unit"} |->
                  CASE k = "sensor" -> ScStr("temp")
                    [] k = "value" -> ScInt(23)
                    [] OTHER -> ScStr("C")]
DictNoValue == [k \in {"value", "unit"} |->
                  IF k = "value" THEN ScNone ELSE ScStr("C")]
CsvLine == <<"user", ",", "action", ",", "timestamp">>

Inputs ==
    { PyNone,
      PyInt(5),
      PyDict(DictReading),
      PyDict(DictNoValue),
      PyStr(CsvLine),
      PyList(<<>>),
      PyList(<<ScInt(21), ScStr("x")>>) }

(***************************************************************************)
(* Stages (nexus_pipeline.py 11-59).                                       *)
(***************************************************************************)
StageKinds == {"Input", "Transform", "Output"}

InputStage_process_NoCheck(data) == Ok(data)

InputStage_process(data) ==
    IF data.t = "none" THEN Raise(data, "ValueError") ELSE Ok(data)

\* str.split(","): the fields between the comma atoms
RECURSIVE SplitComma(_, _, _)
SplitComma(s, i, cur) ==
    IF i > Len(s) THEN <<cur>>
    ELSE IF s[i] = "," THEN <<cur>> \o SplitComma(s, i + 1, <<>>)
    ELSE SplitComma(s, i + 1, Append(cur, s[i]))

RECURSIVE CountField(_, _)
CountField(fields, word) ==
    IF fields = <<>> THEN 0
    ELSE (IF Head(fields) = <<word>> THEN 1 ELSE 0)
         + CountField(Tail(fields), word)

IsNumber(x) == x.k \in {"int", "float", "bool"}

RECURSIVE SumList(_)
SumList(l) == IF l = <<>> THEN 0 ELSE Head(l).n + SumList(Tail(l))

TransformStage_process(data) ==
    IF HasKey(data, "value")
    THEN Ok(PyDict(SetItem(data.d, "status", ScStr("Normal range"))))
    ELSE IF data.t = "str"
    THEN Ok(PyDict([k \in {"count_action"} |->
                ScInt(CountField(SplitComma(data.s, 1, <<>>), "action"))]))
    ELSE IF data.t = "list"
    THEN IF \E i \in 1..Len(data.l) : ~IsNumber(data.l[i])
         THEN Raise(data, "TypeError")          \* sum() of a non-number
         ELSE IF Len(data.l) = 0
         THEN Raise(data, "ZeroDivisionError")  \* sum(data) / 0
         ELSE Ok(PyDict([k \in {"count", "avg"} |->
                  IF k = "count" THEN ScInt(Len(data.l))
                  ELSE ScFloat(SumList(data.l), Len(data.l))]))
    ELSE Ok(data)

OutputStage_process(data) == Ok(data)

\* display only prints: "" when the call returns, else the class it raises
InputStage_display(data) == ""

TransformStage_display(data) == ""

\* data[key] of the f-string: KeyError on a dict, TypeError on the rest
GetItem(data, key) ==
    IF data.t # "dict" THEN "TypeError"
    ELSE IF key \in DOMAIN data.d THEN "" ELSE "KeyError"

OutputStage_display(data) ==
    IF HasKey(data, "value") THEN GetItem(data, "status")
    ELSE IF HasKey(data, "count") THEN GetItem(data, "avg")
    ELSE GetItem(data, "count_action")

\* the str OutputStage.display prints when it returns: the phrase of the
\* branch taken and the first item formatted into it
OutputStage_printed(data) ==
    IF HasKey(data, "value")
    THEN [phrase |-> "Output: Processed temperature reading: ",
          shown |-> data.d["value"]]
    ELSE IF HasKey(data, "count")
    THEN [phrase |-> "Output: Stream summary: ", shown |-> data.d["count"]]
    ELSE [phrase |-> "Output: User activity logged: ",
          shown |-> data.d["count_action"]]

StageProcess(stage, data) ==
    CASE stage = "Input" -> InputStage_process(data)
      [] stage = "Transform" -> TransformStage_process(data)
      [] OTHER -> OutputStage_process(data)

StageDisplay(stage, data) ==
    CASE stage = "Input" -> InputStage_display(data)
      [] stage = "Transform" -> TransformStage_display(data)
      [] OTHER -> OutputStage_display(data)

(***************************************************************************)
(* ProcessingPipeline.execute (nexus_pipeline.py 77-95).  RunStages is the *)
(* for loop inside the try: it returns the value of the local 'data', the  *)
(* number of stages whose process returned, the class of the Exception     *)
(* that ended the loop ("" if none), the stage counter i, and the log of   *)
(* the calls that were made (ok: the call returned; out: what it returned).*)
(***************************************************************************)
Call(stage, method, idx, ok, out) ==
    [stage |-> stage, method |-> method, idx |-> idx, ok |-> ok, out |-> out]

\* the loop has ended at stage counter i with exception class exc ("": none)
Stopped(data, i, exc, calls) ==
    [data |-> data, done |-> i - 1, exc |-> exc, at |-> i, calls |-> calls]

RECURSIVE RunStages(_, _, _, _, _)
RECURSIVE Processed(_, _, _, _, _, _)

\* lines 80-85: display (if affich), then process
RunStages(stgs, i, data, affich, calls) ==
    IF i > Len(stgs) THEN Stopped(data, i, "", calls)
    ELSE IF affich /\ StageDisplay(stgs[i], data) # ""
    THEN Stopped(data, i, StageDisplay(stgs[i], data),
                 Append(calls, Call(stgs[i], "display", i, FALSE, PyNone)))
    ELSE Processed(stgs, i, data, affich,
                   IF affich
                   THEN Append(calls,
                               Call(stgs[i], "display", i, TRUE, PyNone))
                   ELSE calls,
                   StageProcess(stgs[i], data))

\* line 83: stage.process(data) has given r
Processed(stgs, i, data, affich, calls, r) ==
    IF r.ok
    THEN RunStages(stgs, i + 1, r.v, affich,
                   Append(calls, Call(stgs[i], "process", i, TRUE, r.v)))
    ELSE Stopped(data, i, r.exc,
                 Append(calls, Call(stgs[i], "process", i, FALSE, PyNone)))

Caught_ValueErrorOnly(exc) == exc = "ValueError"

\* the handler of line 89
Caught(exc) == exc \in ExceptionClasses

Returned_CountsFailingStage(run, st, data) ==
    [ret |-> IF run.exc # "" /\ ~Caught(run.exc) THEN PyNone ELSE run.data,
     stats |-> [stagesexecuted |-> st.stagesexecuted + run.done
                                   + (IF run.exc # "" THEN 1 ELSE 0),
                success |-> st.success + (IF run.exc # "" THEN 0 ELSE 1),
                errors |-> st.errors
                           + (IF run.exc # "" /\ Caught(run.exc)
                              THEN 1 ELSE 0)],
     run |-> run, raised |-> run.exc # "",
     escaped |-> run.exc # "" /\ ~Caught(run.exc),
     entered |-> TRUE, arg |-> data, input |-> data]

\* lines 87-95 after the loop gave run: the returned value, the new stats,
\* and whether an exception left execute instead of a returned value
Returned(run, st, data) ==
    [ret |-> IF run.exc # "" /\ ~Caught(run.exc) THEN PyNone ELSE run.data,
     stats |-> [stagesexecuted |-> st.stagesexecuted + run.done,
                success |-> st.success + (IF run.exc # "" THEN 0 ELSE 1),
                errors |-> st.errors
                           + (IF run.exc # "" /\ Caught(run.exc)
                              THEN 1 ELSE 0)],
     run |-> run, raised |-> run.exc # "",
     escaped |-> run.exc # "" /\ ~Caught(run.exc),
     entered |-> TRUE, arg |-> data, input |-> data]

\* the whole of execute
execute(stgs, st, data, affich) ==
    Returned(RunStages(stgs, 1, data, affich, <<>>), st, data)

(***************************************************************************)
(* The adapters (nexus_pipeline.py 98-133).  A rejected call never enters  *)
(* execute: it returns the rejection string and leaves the stats alone.    *)
(***************************************************************************)
AdapterKinds == {"JSONAdapter", "CSVAdapter", "StreamAdapter"}

NoRun == [data |-> PyNone, done |-> 0, exc |-> "", at |-> 0,
          calls |-> <<>>]

Rejected(st, data, text) ==
    [ret |-> PyStr(<<text>>), stats |-> st, run |-> NoRun,
     raised |-> FALSE, escaped |-> FALSE, entered |-> FALSE, arg |-> data,
     input |-> data]

\* {k: v for k, v in data.items() if v is not None}
Cleaned(d) == [k \in {x \in DOMAIN d : d[x].k # "none"} |-> d[k]]

\* [x for x in data if isinstance(x, (int, float))]
Filtered(l) == SelectSeq(l, IsNumber)

JSONAdapter_process_NoCheck(stgs, st, data, affich) ==
    [execute(stgs, st, PyDict(Cleaned(data.d)), affich)
       EXCEPT !.input = data]

JSONAdapter_process(stgs, st, data, affich) ==
    IF data.t # "dict"
    THEN Rejected(st, data, "Invalid JSON format")
    ELSE [execute(stgs, st, PyDict(Cleaned(data.d)), affich)
            EXCEPT !.input = data]

CSVAdapter_process(stgs, st, data, affich) ==
    execute(stgs, st, data, affich)

StreamAdapter_process(stgs, st, data, affich) ==
    IF data.t # "list"
    THEN Rejected(st, data, "Invalid stream format")
    ELSE [execute(stgs, st, PyList(Filtered(data.l)), affich)
            EXCEPT !.input = data]

Adapter_process(cls, stgs, st, data, affich) ==
    CASE cls = "JSONAdapter" -> JSONAdapter_process(stgs, st, data, affich)
      [] cls = "CSVAdapter" -> CSVAdapter_process(stgs, st, data, affich)
      [] OTHER -> StreamAdapter_process(stgs, st, data, affich)

(***************************************************************************)
(* State of ex2: one pipeline object and the manager that may hold it      *)
(* (several times) in its list.                                            *)
(*   cls       the adapter class of the pipeline                           *)
(*   stages    self.stages                                                 *)
(*   affich    self.affich                                                 *)
(*   stats     self.stats                                                  *)
(*   pipelines NexusManager.pipelines, as the number of entries that are   *)
(*             this pipeline                                               *)
(*   last      history: the most recent call and what it did               *)
(*   execCount history: how many times execute was entered                 *)
(* The variables of ex1 and ex0 are described with their actions.          *)
(***************************************************************************)
VARIABLES cls, stages, affich, stats, pipelines, last, execCount,
          processed_count, streams, slast, plast

pipeVars == <<cls, stages, affich, stats, pipelines, last, execCount>>
streamVars == <<processed_count, streams, slast>>
vars == <<pipeVars, streamVars, plast>>

NoCall(op) ==
    [op |-> op, input |-> PyNone, arg |-> PyNone, flag |-> TRUE,
     entered |-> FALSE, ret |-> PyNone, run |-> NoRun, raised |-> FALSE,
     escaped |-> FALSE]

Runs == stats.success + stats.errors

add_stage_ResetsStats(stage) ==
    /\ Len(stages) < MaxStages
    /\ stages' = Append(stages, stage)
    /\ stats' = [stagesexecuted |-> 0, success |-> 0, errors |-> 0]
    /\ last' = NoCall("add_stage")
    /\ UNCHANGED <<cls, affich, pipelines, execCount, streamVars, plast>>

add_stage(stage) ==
    /\ Len(stages) < MaxStages
    /\ stages' = Append(stages, stage)
    /\ last' = NoCall("add_stage")
    /\ UNCHANGED <<cls, affich, stats, pipelines, execCount, streamVars,
                   plast>>

\* configure_stages (181-189) on a pipeline that has no stage yet
configure_stages ==
    /\ stages = <<>>
    /\ stages' = <<"Input", "Transform", "Output">>
    /\ last' = NoCall("configure_stages")
    /\ UNCHANGED <<cls, affich, stats, pipelines, execCount, streamVars,
                   plast>>

\* the history record of a call that gave r
Record(op, flag, r) ==
    [op |-> op, input |-> r.input, arg |-> r.arg, flag |-> flag,
     entered |-> r.entered, ret |-> r.ret, run |-> r.run,
     raised |-> r.raised, escaped |-> r.escaped]

\* pipeline.process(data): the adapter's process with self.affich
process(data) ==
    /\ Runs < MaxRuns
    /\ \E r \in {Adapter_process(cls, stages, stats, data, affich)} :
          /\ stats' = r.stats
          /\ last' = Record("process", affich, r)
          /\ execCount' = execCount + (IF r.entered THEN 1 ELSE 0)
    /\ UNCHANGED <<cls, stages, affich, pipelines, streamVars, plast>>

\* pipeline.execute(data, flag) called directly
execute_call(data, flag) ==
    /\ Runs < MaxRuns
    /\ \E r \in {execute(stages, stats, data, flag)} :
          /\ stats' = r.stats
          /\ last' = Record("execute", flag, r)
          /\ execCount' = execCount + 1
    /\ UNCHANGED <<cls, stages, affich, pipelines, streamVars, plast>>

add_pipeline ==
    /\ pipelines < MaxRegistered
    /\ pipelines' = pipelines + 1
    /\ last' = NoCall("add_pipeline")
    /\ UNCHANGED <<cls, stages, affich, stats, execCount, streamVars, plast>>

(***************************************************************************)
(* NexusManager.process_data (145-161): every entry of self.pipelines gets *)
(* affich = False and processes the value returned by the entry before it. *)
(* Chain folds the loop; it carries the stats, the current value, the      *)
(* number of executes entered and the record of the last process call.     *)
(***************************************************************************)
RECURSIVE Chain(_, _, _, _, _)
RECURSIVE Chained(_, _, _)

Chain(n, st, cur, cnt, rec) ==
    IF n = 0 THEN [stats |-> st, cur |-> cur, cnt |-> cnt, rec |-> rec]
    ELSE Chained(n, cnt, Adapter_process(cls, stages, st, cur, FALSE))

\* line 150: the entry's process has given r
Chained(n, cnt, r) ==
    Chain(n - 1, r.stats, r.ret, cnt + (IF r.entered THEN 1 ELSE 0), r)

process_data(data) ==
    /\ Runs + pipelines <= MaxRuns
    /\ \E c \in {Chain(pipelines, stats, data, 0,
                       [ret |-> PyNone, stats |-> stats, run |-> NoRun,
                        raised |-> FALSE, escaped |-> FALSE,
                        entered |-> FALSE, arg |-> data, input |-> data])} :
          /\ stats' = c.stats
          /\ affich' = IF pipelines > 0 THEN FALSE ELSE affich
          /\ execCount' = execCount + c.cnt
          /\ last' = Record("process_data", FALSE, c.rec)
    /\ UNCHANGED <<cls, stages, pipelines, streamVars, plast>>

(***************************************************************************)
(* ex1/data_stream.py.  A batch is a sequence of items; an item is         *)
(* [t, m, s]: type tag, mapping payload (field -> number), str payload (a  *)
(* sequence of atoms, none of which is a substring of a run of the others).*)
(***************************************************************************)
MaxBatch == 2
MaxStreams == 3

NoMap == [k \in {} |-> 0]
MapItem(m) == [t |-> "dict", m |-> m, s |-> <<>>]
StrItem(s) == [t |-> "str", m |-> NoMap, s |-> s]
IntItem == [t |-> "int", m |-> NoMap, s |-> <<>>]

Reading(temp) == MapItem([k \in {"temp"} |-> temp])
Trade(buy, sell) ==
    MapItem([k \in {"buy", "sell"} |-> IF k = "buy" THEN buy ELSE sell])

Items ==
    { Reading(0 - 1), Reading(16), Reading(31), MapItem(NoMap),
      Trade(201, 0), Trade(0, 101),
      StrItem(<<"error">>), IntItem }

RECURSIVE SeqsUpTo(_, _)
SeqsUpTo(S, n) ==
    IF n = 0 THEN {<<>>}
    ELSE LET shorter == SeqsUpTo(S, n - 1)
         IN shorter \cup {Append(q, x) : q \in shorter, x \in S}

Batches == SeqsUpTo(Items, MaxBatch)

\* d.get(key, default): the value, or AttributeError on a non-mapping
CanGet(d) == d.t = "dict"
Get(d, key, default) == IF key \in DOMAIN d.m THEN d.m[key] ELSE default

\* key in event: substring on a str, key membership on a mapping,
\* TypeError on an int
CanContain(e) == e.t \in {"str", "dict"}
Contains(e, word) ==
    IF e.t = "str" THEN \E i \in 1..Len(e.s) : e.s[i] = word
    ELSE word \in DOMAIN e.m

RECURSIVE SumField(_, _)
SumField(batch, key) ==
    IF batch = <<>> THEN 0
    ELSE Get(Head(batch), key, 0) + SumField(Tail(batch), key)

\* sum(1 for x in batch if ...), flags[i] telling whether batch[i] counts
CountIf(flags) == Cardinality({i \in DOMAIN flags : flags[i]})

\* the str a process_batch returns, as the fields it is formatted from
Report(kind, label, count, a, b, sign) ==
    [kind |-> kind, label |-> label, count |-> count, a |-> a, b |-> b,
     sign |-> sign]

NoReport == Report("", "", 0, 0, 1, "")

SensorOutOfRange_HighOnly(d) == Get(d, "temp", 0) > 30

\* every process_batch yields the new processed_count and the returned str
SensorOutOfRange(d) == Get(d, "temp", 0) > 30 \/ Get(d, "temp", 0) < 0

SensorStream_process_batch_CountAfterAlert(count, batch) ==
    LET n == Len(batch)
        alert == /\ \A i \in 1..n : CanGet(batch[i])
                 /\ CountIf([i \in 1..n |-> SensorOutOfRange(batch[i])]) # 0
    IN [count |-> IF alert THEN count ELSE n,
        res |-> IF \E i \in 1..n : ~CanGet(batch[i])
                THEN Report("error", "Sensor processing error", 0, 0, 1, "")
                ELSE IF alert
                THEN Report("alert", "[ALERT] found extern-values!!",
                            0, 0, 1, "")
                ELSE IF n # 0
                THEN Report("summary", "Sensor analysis", n,
                            SumField(batch, "temp"), n, "")
                ELSE Report("summary", "Sensor analysis", n, 0, 1, "")]

SensorStream_process_batch(count, batch) ==
    LET n == Len(batch)
    IN [count |-> n,
        res |-> IF \E i \in 1..n : ~CanGet(batch[i])
                THEN Report("error", "Sensor processing error", 0, 0, 1, "")
                ELSE IF CountIf([i \in 1..n |-> SensorOutOfRange(batch[i])]) # 0
                THEN Report("alert", "[ALERT] found extern-values!!",
                            0, 0, 1, "")
                ELSE IF n # 0
                THEN Report("summary", "Sensor analysis", n,
                            SumField(batch, "temp"), n, "")
                ELSE Report("summary", "Sensor analysis", n, 0, 1, "")]

TransactionStream_process_batch(count, batch) ==
    LET n == Len(batch)
        net_flow == SumField(batch, "buy") - SumField(batch, "sell")
    IN [count |-> n,
        res |-> IF \E i \in 1..n : ~CanGet(batch[i])
                THEN Report("error", "Transaction processing error",
                            0, 0, 1, "")
                ELSE Report("summary", "Transaction analysis", n, net_flow,
                            1, IF net_flow >= 0 THEN "+" ELSE "")]

EventIsError(e) == Contains(e, "error")

EventStream_process_batch(count, batch) ==
    LET n == Len(batch)
    IN [count |-> n,
        res |-> IF \E i \in 1..n : ~CanContain(batch[i])
                THEN Report("error", "Event processing error", 0, 0, 1, "")
                ELSE Report("summary", "Event analysis", n,
                            CountIf([i \in 1..n |-> EventIsError(batch[i])]),
                            1, "")]

\* the abstract body (pass): nothing is counted, None is returned
DataStream_process_batch(count, batch) ==
    [count |-> count, res |-> NoReport]

Stream_process_batch(class, count, batch) ==
    CASE class = "SensorStream" -> SensorStream_process_batch(count, batch)
      [] class = "TransactionStream" ->
            TransactionStream_process_batch(count, batch)
      [] class = "EventStream" -> EventStream_process_batch(count, batch)
      [] OTHER -> DataStream_process_batch(count, batch)

\* get_stats: the keys of the returned dict and its processed_items
DataStream_get_stats(count) ==
    [keys |-> {"stream_id", "processed_items"}, processed_items |-> count]

Stream_get_stats(class, count) ==
    IF class = "DataStream" THEN DataStream_get_stats(count)
    ELSE [keys |-> DataStream_get_stats(count).keys \cup {"type", "process"},
          processed_items |-> DataStream_get_stats(count).processed_items]

(***************************************************************************)
(* filter_data (14-16, 41-47, 69-77, 96-104).  A list comprehension visits *)
(* every element, so one element the test cannot be applied to makes the   *)
(* call raise; the result is [ok, out, exc].  The criterion None is the    *)
(* name "None".                                                            *)
(***************************************************************************)
Criteria ==
    {"None", "high", "high-alert", "large", "height", "errors", "login",
     "logout", "other"}

\* [d for d in batch if ...], keeps[i] telling whether batch[i] is kept
Keep(batch, keeps) ==
    LET kept[i \in 0..Len(batch)] ==
            IF i = 0 THEN <<>>
            ELSE IF keeps[i] THEN Append(kept[i - 1], batch[i])
            ELSE kept[i - 1]
    IN kept[Len(batch)]

\* the comprehension raises exc when its test cannot be applied to some
\* element (applies[i] is false)
Comprehension(batch, applies, keeps, exc) ==
    IF \E i \in 1..Len(batch) : ~applies[i]
    THEN [ok |-> FALSE, out |-> <<>>, exc |-> exc]
    ELSE [ok |-> TRUE, out |-> Keep(batch, keeps), exc |-> ""]

Gettable(batch) == [i \in 1..Len(batch) |-> CanGet(batch[i])]
Containable(batch) == [i \in 1..Len(batch) |-> CanContain(batch[i])]

Unfiltered(batch) == [ok |-> TRUE, out |-> batch, exc |-> ""]

TempOver30(d) == Get(d, "temp", 0) > 30
TempOver15(d) == Get(d, "temp", 0) > 15
TradeOver200(d) == Get(d, "buy", 0) > 200 \/ Get(d, "sell", 0) > 200
TradeOver100_BuyOnly(d) == Get(d, "buy", 0) > 100
TradeOver100(d) == Get(d, "buy", 0) > 100 \/ Get(d, "sell", 0) > 100
HasError(e) == Contains(e, "error")
HasLogin(e) == Contains(e, "login")
HasLogout(e) == Contains(e, "logout")

DataStream_filter_data(batch, criteria) == Unfiltered(batch)

SensorStream_filter_data(batch, criteria) ==
    IF criteria = "high-alert"
    THEN Comprehension(batch, Gettable(batch),
           [i \in 1..Len(batch) |-> TempOver30(batch[i])], "AttributeError")
    ELSE IF criteria = "large"
    THEN Comprehension(batch, Gettable(batch),
           [i \in 1..Len(batch) |-> TempOver15(batch[i])], "AttributeError")
    ELSE Unfiltered(batch)

TransactionStream_filter_data(batch, criteria) ==
    IF criteria = "high"
    THEN Comprehension(batch, Gettable(batch),
           [i \in 1..Len(batch) |-> TradeOver200(batch[i])], "AttributeError")
    ELSE IF criteria = "large"
    THEN Comprehension(batch, Gettable(batch),
           [i \in 1..Len(batch) |-> TradeOver100(batch[i])], "AttributeError")
    ELSE Unfiltered(batch)

EventStream_filter_data_DefaultErrors(batch, criteria) ==
    IF criteria = "login"
    THEN Comprehension(batch, Containable(batch),
           [i \in 1..Len(batch) |-> HasLogin(batch[i])], "TypeError")
    ELSE IF criteria = "logout"
    THEN Comprehension(batch, Containable(batch),
           [i \in 1..Len(batch) |-> HasLogout(batch[i])], "TypeError")
    ELSE Comprehension(batch, Containable(batch),
           [i \in 1..Len(batch) |-> HasError(batch[i])], "TypeError")

EventStream_filter_data(batch, criteria) ==
    IF criteria = "errors"
    THEN Comprehension(batch, Containable(batch),
           [i \in 1..Len(batch) |-> HasError(batch[i])], "TypeError")
    ELSE IF criteria = "login"
    THEN Comprehension(batch, Containable(batch),
           [i \in 1..Len(batch) |-> HasLogin(batch[i])], "TypeError")
    ELSE IF criteria = "logout"
    THEN Comprehension(batch, Containable(batch),
           [i \in 1..Len(batch) |-> HasLogout(batch[i])], "TypeError")
    ELSE Unfiltered(batch)

Stream_filter_data(class, batch, criteria) ==
    CASE class = "SensorStream" -> SensorStream_filter_data(batch, criteria)
      [] class = "TransactionStream" ->
            TransactionStream_filter_data(batch, criteria)
      [] class = "EventStream" -> EventStream_filter_data(batch, criteria)
      [] OTHER -> DataStream_filter_data(batch, criteria)

(***************************************************************************)
(* State of ex1.                                                           *)
(*   processed_count  self.processed_count of every stream object created  *)
(*   streams          StreamProcessor.streams                              *)
(*   slast            history: the most recent call and what it did        *)
(* A stream object is named by its stream_id; the id tells its class.      *)
(* CUSTOM_001 is a subclass that adds nothing to DataStream.               *)
(***************************************************************************)
StreamIds == {"SENSOR_001", "TRANS_001", "EVENT_001", "CUSTOM_001"}

ClassOf(id) ==
    CASE id = "SENSOR_001" -> "SensorStream"
      [] id = "TRANS_001" -> "TransactionStream"
      [] id = "EVENT_001" -> "EventStream"
      [] OTHER -> "DataStream"

NoBatches == [id \in {} |-> <<>>]

SCall(op, id, batch, crit) ==
    [op |-> op, id |-> id, batch |-> batch, crit |-> crit,
     res |-> NoReport, ok |-> TRUE, out |-> <<>>, exc |-> "",
     escaped |-> FALSE, log |-> <<>>, db |-> NoBatches]

process_batch(id, batch) ==
    /\ \E r \in {Stream_process_batch(ClassOf(id), processed_count[id],
                                       batch)} :
          /\ processed_count' = [processed_count EXCEPT ![id] = r.count]
          /\ slast' = [SCall("process_batch", id, batch, "None")
                         EXCEPT !.res = r.res]
    /\ UNCHANGED <<streams, pipeVars, plast>>

filter_data ==
    /\ slast.op = "input"
    /\ \E r \in {Stream_filter_data(ClassOf(slast.id), slast.batch,
                                     slast.crit)} :
          slast' = [slast EXCEPT !.op = "filter_data", !.ok = r.ok,
                                 !.out = r.out, !.exc = r.exc]
    /\ UNCHANGED <<processed_count, streams, pipeVars, plast>>

(***************************************************************************)
(* StreamProcessor (113-140).  ProcessLoop is the for loop inside the try  *)
(* of process_all: the counts after it, the streams whose process_batch    *)
(* was invoked (in order), and the class of the Exception that ended it.   *)
(***************************************************************************)
DemoBatch == <<Reading(31), Reading(16)>>

DataBatches ==
    {[id \in ids |-> b] :
        ids \in {{}, {"SENSOR_001"}, StreamIds},
        b \in {DemoBatch, <<IntItem>>}}

RECURSIVE ProcessLoop(_, _, _, _, _)
ProcessLoop(strs, i, db, counts, log) ==
    IF i > Len(strs) THEN [counts |-> counts, log |-> log, exc |-> ""]
    ELSE LET id == strs[i]
             batch == IF id \in DOMAIN db THEN db[id] ELSE <<>>
             r == Stream_process_batch(ClassOf(id), counts[id], batch)
             counts1 == [counts EXCEPT ![id] = r.count]
             log1 == Append(log, id)
             stats1 == Stream_get_stats(ClassOf(id), counts1[id])
         IN IF "process" \notin stats1.keys       \* stats['process']
            THEN [counts |-> counts1, log |-> log1, exc |-> "KeyError"]
            ELSE ProcessLoop(strs, i + 1, db, counts1, log1)

add_stream(id) ==
    /\ Len(streams) < MaxStreams
    /\ streams' = Append(streams, id)
    /\ slast' = SCall("add_stream", id, <<>>, "None")
    /\ UNCHANGED <<processed_count, pipeVars, plast>>

process_all(db) ==
    /\ \E r \in {ProcessLoop(streams, 1, db, processed_count, <<>>)} :
          /\ processed_count' = r.counts
          /\ slast' = [SCall("process_all", "", <<>>, "None")
                         EXCEPT !.db = db, !.log = r.log, !.exc = r.exc,
                                !.escaped = (r.exc # "" /\ ~Caught(r.exc))]
    /\ UNCHANGED <<streams, pipeVars, plast>>

(***************************************************************************)
(* ex0/stream_processor.py and test.py: the two variants of the            *)
(* DataProcessor hierarchy.  A datum is [t, n, l, s]: type tag, number,    *)
(* list elements (each [k, n]), characters of a str.  Numbers are whole;   *)
(* FloatMax stands for the largest finite float: an int above it cannot be *)
(* converted to float (OverflowError) and a float above it is inf.         *)
(***************************************************************************)
MaxList == 2
MaxStrLen == 3
FloatMax == 100

Elem(k, n) == [k |-> k, n |-> n]
Datum(t, n, l, str) == [t |-> t, n |-> n, l |-> l, s |-> str]

Elems ==
    { Elem("int", 2), Elem("int", FloatMax + 1), Elem("float", 1),
      Elem("bool", 1), Elem("str", 0) }

Alphabet == {"a", " ", "\t"}

LogLines ==
    { <<"E", "R", "R", "O", "R", ":", " ", "a">>,
      <<"E", "R", "R", "O", "R", ":">>,
      <<"W", "A", "R", "N", "I", "N", "G", ":", "a", " ">>,
      <<"I", "N", "F", "O", ":", "\t", "a">>,
      <<"E", "R", "R", "O", "R", ":", " ", "i", "n", "v", "a", "l", "i", "d", " ", "l", "o", "g", " ", "d", "a", "t", "a">> }

Data ==
    {Datum("none", 0, <<>>, <<>>)}
    \cup {Datum(e.k, e.n, <<>>, <<>>) : e \in Elems \ {Elem("str", 0)}}
    \cup {Datum("list", 0, l, <<>>) : l \in SeqsUpTo(Elems, MaxList)}
    \cup {Datum("str", 0, <<>>, str) :
            str \in SeqsUpTo(Alphabet, MaxStrLen) \cup LogLines}

Variants == {"ex0", "test"}
Processors == {"NumericProcessor", "TextProcessor", "LogProcessor"}

\* the str a process returns: a literal head followed by the characters of
\* body, formatted from the numbers n1..n4 (fk: the type of the sum)
PReport(head, body, n1, n2, fk, n3, n4) ==
    [head |-> head, body |-> body, n1 |-> n1, n2 |-> n2, fk |-> fk,
     n3 |-> n3, n4 |-> n4]

AlertHead == "[ALERT] ERROR level detected: "
Alert(body) == PReport(AlertHead, body, 0, 0, "", 0, 1)
InvalidNumeric == Alert(<<"i", "n", "v", "a", "l", "i", "d", " ", "n", "u", "m", "e", "r", "i", "c", " ", "d", "a", "t", "a">>)
InvalidText == Alert(<<"i", "n", "v", "a", "l", "i", "d", " ", "t", "e", "x", "t", " ", "d", "a", "t", "a">>)
InvalidLog == Alert(<<"i", "n", "v", "a", "l", "i", "d", " ", "l", "o", "g", " ", "d", "a", "t", "a">>)
DataEmpty == PReport("data empty", <<>>, 0, 0, "", 0, 1)

\* what a process call did: the branch it left by, the str it returned and
\* the class of the exception raised inside its try ("" if none)
Outcome(path, report) == [path |-> path, report |-> report, exc |-> ""]
Except(report, exc) == [path |-> "except", report |-> report, exc |-> exc]

(***************************************************************************)
(* NumericProcessor (ex0 18-49, test.py 18-53).                            *)
(***************************************************************************)
IsIntOrFloat_Isinstance(k) == k \in {"int", "float", "bool"}

\* type(x) in (int, float): the type itself, so a bool is not accepted
IsIntOrFloat(k) == k \in {"int", "float"}

NumericProcessor_validate(data) ==
    IF IsIntOrFloat(data.t) THEN TRUE
    ELSE IF data.t = "list"
    THEN \A i \in 1..Len(data.l) : IsIntOrFloat(data.l[i].k)
    ELSE FALSE

Abs(n) == IF n < 0 THEN 0 - n ELSE n

Clip(n) ==
    IF n > FloatMax THEN FloatMax + 1
    ELSE IF n < 0 - FloatMax THEN 0 - (FloatMax + 1) ELSE n

\* total += value: [ok, k, n]; an int too large for a float cannot be added
\* to a float
Add(total, value) ==
    IF total.k = "int" /\ value.k = "int"
    THEN [ok |-> TRUE, k |-> "int", n |-> total.n + value.n]
    ELSE IF \/ total.k = "int" /\ Abs(total.n) > FloatMax
            \/ value.k = "int" /\ Abs(value.n) > FloatMax
    THEN [ok |-> FALSE, k |-> "float", n |-> 0]
    ELSE [ok |-> TRUE, k |-> "float", n |-> Clip(total.n + value.n)]

RECURSIVE SumLoop(_, _, _)
SumLoop(l, i, total) ==
    IF i > Len(l) \/ ~total.ok THEN total
    ELSE SumLoop(l, i + 1, Add(total, l[i]))

\* total / length: an int quotient beyond the floats is an OverflowError
CanDivide(total, length) ==
    total.k = "float" \/ Abs(total.n) <= FloatMax * length

\* what the except clause of the variant returns for the message msg
ExceptReport(variant, msg) ==
    IF variant = "ex0" THEN Alert(<<msg>>) ELSE InvalidNumeric

\* the body of the try after validate
NumericCompute(variant, data) ==
    IF ~(IsIntOrFloat(data.t) \/ data.t = "list")
    THEN Outcome("invalid", InvalidNumeric)
    ELSE IF data.t = "list" /\ data.l = <<>>
    THEN Outcome("empty", DataEmpty)
    ELSE LET length == IF data.t = "list" THEN Len(data.l) ELSE 1
             total == IF data.t = "list"
                      THEN SumLoop(data.l, 1,
                                   [ok |-> TRUE, k |-> "int", n |-> 0])
                      ELSE [ok |-> TRUE, k |-> data.t, n |-> data.n]
         IN IF ~total.ok
            THEN Except(ExceptReport(variant,
                          "int too large to convert to float"),
                        "OverflowError")
            ELSE IF ~CanDivide(total, length)
            THEN Except(ExceptReport(variant,
                          "integer division result too large for a float"),
                        "OverflowError")
            ELSE Outcome("computed",
                   PReport("Processed numeric values", <<>>, length,
                           total.n, total.k, total.n, length))

NumericProcessor_process(variant, data) ==
    IF ~NumericProcessor_validate(data)
    THEN Outcome("invalid", InvalidNumeric)
    ELSE NumericCompute(variant, data)

(***************************************************************************)
(* TextProcessor (ex0 52-68, test.py 56-83).                               *)
(***************************************************************************)
TextProcessor_validate(data) == data.t = "str"

Whitespace == {" ", "\t", "\n", "\r"}

\* len(data.split()): the runs of characters that are not whitespace
SplitCount(str) ==
    Cardinality({i \in 1..Len(str) :
        /\ str[i] \notin Whitespace
        /\ (i = 1 \/ str[i - 1] \in Whitespace)})

\* the in_word scan of test.py: only ' ' ends a word
RECURSIVE ScanWords(_, _, _, _)
ScanWords(str, i, words, in_word) ==
    IF i > Len(str) THEN words
    ELSE IF str[i] # " " /\ ~in_word
    THEN ScanWords(str, i + 1, words + 1, TRUE)
    ELSE IF str[i] = " " THEN ScanWords(str, i + 1, words, FALSE)
    ELSE ScanWords(str, i + 1, words, in_word)

TextProcessor_process(variant, data) ==
    IF ~TextProcessor_validate(data) THEN Outcome("invalid", InvalidText)
    ELSE IF data.s = <<>> THEN Outcome("empty", DataEmpty)
    ELSE Outcome("computed",
           PReport("Processed text", <<>>, Len(data.s),
                   IF variant = "ex0" THEN SplitCount(data.s)
                   ELSE ScanWords(data.s, 1, 0, FALSE),
                   "", 0, 1))

(***************************************************************************)
(* LogProcessor (ex0 71-95, test.py 86-110), the same in both variants.    *)
(***************************************************************************)
LogProcessor_validate(data) == data.t = "str"

Prefix(str, n) == SubSeq(str, 1, IF Len(str) < n THEN Len(str) ELSE n)
Rest(str, n) ==
    SubSeq(str, (IF Len(str) < n THEN Len(str) ELSE n) + 1, Len(str))

RECURSIVE LStrip(_)
LStrip(str) ==
    IF str # <<>> /\ Head(str) \in Whitespace THEN LStrip(Tail(str)) ELSE str

RECURSIVE RStrip(_)
RStrip(str) ==
    IF str # <<>> /\ str[Len(str)] \in Whitespace
    THEN RStrip(SubSeq(str, 1, Len(str) - 1)) ELSE str

Strip(str) == RStrip(LStrip(str))

LogProcessor_process(variant, data) ==
    IF ~LogProcessor_validate(data) THEN Outcome("invalid", InvalidLog)
    ELSE IF data.s = <<>> THEN Outcome("empty", DataEmpty)
    ELSE IF Prefix(data.s, 6) = <<"E", "R", "R", "O", "R", ":">>
    THEN Outcome("computed", Alert(Strip(Rest(data.s, 6))))
    ELSE IF Prefix(data.s, 8) = <<"W", "A", "R", "N", "I", "N", "G", ":">>
    THEN Outcome("computed",
           PReport("[WARNING] WARNING level detected: ",
                   Strip(Rest(data.s, 8)), 0, 0, "", 0, 1))
    ELSE IF Prefix(data.s, 5) = <<"I", "N", "F", "O", ":">>
    THEN Outcome("computed",
           PReport("[INFO] INFO level detected: ",
                   Strip(Rest(data.s, 5)), 0, 0, "", 0, 1))
    ELSE Outcome("computed",
           PReport("[INFO] INFO level detected: ", Strip(data.s),
                   0, 0, "", 0, 1))

Processor_validate(proc, data) ==
    CASE proc = "NumericProcessor" -> NumericProcessor_validate(data)
      [] proc = "TextProcessor" -> TextProcessor_validate(data)
      [] OTHER -> LogProcessor_validate(data)

Processor_process(variant, proc, data) ==
    CASE proc = "NumericProcessor" -> NumericProcessor_process(variant, data)
      [] proc = "TextProcessor" -> TextProcessor_process(variant, data)
      [] OTHER -> LogProcessor_process(variant, data)

(***************************************************************************)
(* State of ex0 / test.py: the processors keep none; plast is the history  *)
(* of the one call made: the variant, the processor, the datum, then the   *)
(* branch taken and the str returned.                                      *)
(***************************************************************************)
PCall(op, variant, proc, data, out) ==
    [op |-> op, variant |-> variant, proc |-> proc, data |-> data,
     path |-> out.path, report |-> out.report,
     escaped |-> (out.exc # "" /\ ~Caught(out.exc))]

NoPCall ==
    PCall("init", "ex0", "NumericProcessor",
          Datum("none", 0, <<>>, <<>>), Outcome("", DataEmpty))

processor_process ==
    /\ plast.op = "input"
    /\ plast' = PCall("process", plast.variant, plast.proc, plast.data,
                      Processor_process(plast.variant, plast.proc,
                                        plast.data))
    /\ UNCHANGED <<pipeVars, streamVars>>

\* validate called on its own: path is the bool it returned
processor_validate ==
    /\ plast.op = "input"
    /\ plast' = PCall("validate", plast.variant, plast.proc, plast.data,
                      Outcome(IF Processor_validate(plast.proc, plast.data)
                              THEN "True" ELSE "False", DataEmpty))
    /\ UNCHANGED <<pipeVars, streamVars>>

(***************************************************************************)
(* Specifications.  Each exercise is a program of its own: the objects of  *)
(* the others stay as constructed.                                         *)
(***************************************************************************)
\* ex2: ProcessingPipeline.__init__ (64-68), NexusManager.__init__ (138-140)
Init ==
    /\ cls \in AdapterKinds
    /\ stages = <<>>
    /\ affich = TRUE
    /\ stats = [stagesexecuted |-> 0, success |-> 0, errors |-> 0]
    /\ pipelines = 0
    /\ last = NoCall("init")
    /\ execCount = 0
    /\ processed_count = [id \in StreamIds |-> 0]
    /\ streams = <<>>
    /\ slast = SCall("init", "", <<>>, "None")
    /\ plast = NoPCall

Next ==
    \/ \E stage \in StageKinds : add_stage(stage)
    \/ configure_stages
    \/ \E data \in Inputs : process(data)
    \/ \E data \in Inputs, flag \in BOOLEAN : execute_call(data, flag)
    \/ add_pipeline
    \/ \E data \in Inputs : process_data(data)

Spec == Init /\ [][Next]_vars

\* ex1: DataStream.__init__ (6-8) of one stream, StreamProcessor not used
InitBatch ==
    /\ cls = "JSONAdapter"
    /\ stages = <<>>
    /\ affich = TRUE
    /\ stats = [stagesexecuted |-> 0, success |-> 0, errors |-> 0]
    /\ pipelines = 0
    /\ last = NoCall("init")
    /\ execCount = 0
    /\ \E id \in StreamIds : processed_count = [i \in {id} |-> 0]
    /\ streams = <<>>
    /\ slast = SCall("init", "", <<>>, "None")
    /\ plast = NoPCall

NextBatch ==
    \E id \in DOMAIN processed_count, batch \in Batches :
        process_batch(id, batch)

SpecBatch == InitBatch /\ [][NextBatch]_vars

\* ex1: one stream, one batch and one criterion are drawn; filter_data is
\* applied to them
InitFilter ==
    /\ cls = "JSONAdapter"
    /\ stages = <<>>
    /\ affich = TRUE
    /\ stats = [stagesexecuted |-> 0, success |-> 0, errors |-> 0]
    /\ pipelines = 0
    /\ last = NoCall("init")
    /\ execCount = 0
    /\ \E id \in StreamIds : processed_count = [i \in {id} |-> 0]
    /\ streams = <<>>
    /\ \E id \in DOMAIN processed_count, batch \in Batches,
          crit \in Criteria : slast = SCall("input", id, batch, crit)
    /\ plast = NoPCall

NextFilter == filter_data

SpecFilter == InitFilter /\ [][NextFilter]_vars

\* ex1: the streams exist (6-8), StreamProcessor.__init__ (114-115)
InitAll ==
    /\ cls = "JSONAdapter"
    /\ stages = <<>>
    /\ affich = TRUE
    /\ stats = [stagesexecuted |-> 0, success |-> 0, errors |-> 0]
    /\ pipelines = 0
    /\ last = NoCall("init")
    /\ execCount = 0
    /\ processed_count = [id \in StreamIds |-> 0]
    /\ streams = <<>>
    /\ slast = SCall("init", "", <<>>, "None")
    /\ plast = NoPCall

NextAll ==
    \/ \E id \in StreamIds : add_stream(id)
    \/ \E db \in DataBatches : process_all(db)

SpecAll == InitAll /\ [][NextAll]_vars

\* ex0 / test.py: a variant, a processor and a datum are drawn; process is
\* applied to them
InitProc ==
    /\ cls = "JSONAdapter"
    /\ stages = <<>>
    /\ affich = TRUE
    /\ stats = [stagesexecuted |-> 0, success |-> 0, errors |-> 0]
    /\ pipelines = 0
    /\ last = NoCall("init")
    /\ execCount = 0
    /\ processed_count = [id \in StreamIds |-> 0]
    /\ streams = <<>>
    /\ slast = SCall("init", "", <<>>, "None")
    /\ \E variant \in Variants, proc \in Processors, data \in Data :
          plast = PCall("input", variant, proc, data, Outcome("", DataEmpty))

NextProc ==
    \/ processor_process
    \/ processor_validate

SpecProc == InitProc /\ [][NextProc]_vars

(***************************************************************************)
(* Properties of ex2 (specification Spec).                                 *)
(***************************************************************************)
ThreeStages == <<"Input", "Transform", "Output">>

SingleRun(l) == l.op \in {"process", "execute"} /\ l.entered

\* the value returned by the last process call of the log that completed,
\* or the value execute was entered with when there is none
RECURSIVE LastCompleted(_, _)
LastCompleted(calls, arg) ==
    IF calls = <<>> THEN arg
    ELSE LET c == calls[Len(calls)]
         IN IF c.method = "process" /\ c.ok THEN c.out
            ELSE LastCompleted(SubSeq(calls, 1, Len(calls) - 1), arg)

\* C1: when stage k of a run of execute raises, no call is made on a stage
\* after k, the call that raised is the last one made, errors grows by 1
\* and the other counters by what completed before k, execute returns the
\* value of the last stage that completed (its own argument when k = 1),
\* and the exception does not leave execute.
C1_StageFailureRecovered ==
    [][(SingleRun(last') /\ last'.raised) =>
         LET run == last'.run
             k == run.at
         IN /\ k \in 1..Len(stages)
            /\ \A j \in 1..Len(run.calls) : run.calls[j].idx <= k
            /\ run.calls # <<>>
            /\ run.calls[Len(run.calls)].idx = k
            /\ ~run.calls[Len(run.calls)].ok
            /\ stats'.errors = stats.errors + 1
            /\ stats'.success = stats.success
            /\ stats'.stagesexecuted = stats.stagesexecuted + (k - 1)
            /\ last'.ret = LastCompleted(run.calls, last'.arg)
            /\ ~last'.escaped]_vars

C1_Witness ==
    /\ last.op = "process"
    /\ last.entered /\ last.raised
    /\ last.run.at = 2
    /\ last.run.exc = "TypeError"
    /\ stats.errors = 1

\* C2: a pipeline with the stages Input, Transform, Output that enters
\* execute with None aborts at stage 1: errors grows by exactly 1,
\* stagesexecuted and success keep their values, and process is invoked on
\* neither the Transform nor the Output stage.
C2_NoneAbortsAtInput ==
    [][(SingleRun(last') /\ last'.arg = PyNone /\ stages = ThreeStages) =>
         /\ last'.run.at = 1
         /\ stats' = [stats EXCEPT !.errors = @ + 1]
         /\ \A j \in 1..Len(last'.run.calls) :
              last'.run.calls[j].method = "process"
                => last'.run.calls[j].stage = "Input"]_vars

C2_Witness ==
    /\ cls = "CSVAdapter"
    /\ stages = ThreeStages
    /\ last.op = "process"
    /\ last.input = PyNone
    /\ last.entered
    /\ stats.errors = 1

\* C3: a JSONAdapter given a non-dict and a StreamAdapter given a non-list
\* return the rejection string, invoke no method of any stage and leave the
\* three counters alone; a CSVAdapter always enters the stage chain.
PreconditionFails(c, data) ==
    \/ c = "JSONAdapter" /\ data.t # "dict"
    \/ c = "StreamAdapter" /\ data.t # "list"

RejectionString(c) ==
    IF c = "JSONAdapter" THEN PyStr(<<"Invalid JSON format">>)
    ELSE PyStr(<<"Invalid stream format">>)

C3_RejectionLeavesNoTrace ==
    [][(last'.op = "process") =>
         /\ PreconditionFails(cls, last'.input) =>
              /\ last'.ret = RejectionString(cls)
              /\ last'.run.calls = <<>>
              /\ ~last'.entered
              /\ stats' = stats
         /\ ~PreconditionFails(cls, last'.input) => last'.entered
         /\ cls = "CSVAdapter" => last'.entered]_vars

C3_Witness ==
    /\ last.op = "process"
    /\ cls = "JSONAdapter"
    /\ last.input.t = "list"
    /\ stages = ThreeStages
    /\ ~last.entered

\* C4: in every step each of stagesexecuted, success and errors keeps or
\* increases its value, a step that changes one of them is a step in which
\* the pipeline's execute was entered, and add_stage, configure_stages and
\* add_pipeline change none.
C4_CountersMonotonic ==
    [][/\ stats'.stagesexecuted >= stats.stagesexecuted
       /\ stats'.success >= stats.success
       /\ stats'.errors >= stats.errors
       /\ stats' # stats => execCount' > execCount
       /\ last'.op \in {"add_stage", "configure_stages", "add_pipeline"}
            => stats' = stats]_vars

C4_Witness ==
    /\ last.op = "add_stage"
    /\ stats.success = 1
    /\ stats.errors = 1
    /\ pipelines = 1
    /\ ~affich

(***************************************************************************)
(* Properties of ex1 (specifications SpecAll, SpecBatch, SpecFilter).      *)
(***************************************************************************)
BuiltIn(id) ==
    ClassOf(id) \in {"SensorStream", "TransactionStream", "EventStream"}

\* C5: process_all invokes process_batch on every registered stream, once
\* each and in registration order, whatever happens while one of them is
\* handled, and lets no exception out.
C5_EveryStreamProcessed ==
    slast.op = "process_all" => (slast.log = streams /\ ~slast.escaped)

\* C6: for a SensorStream, TransactionStream or EventStream, the
\* processed_items of get_stats is the length of the batch of the most
\* recent process_batch call, and 0 before the first call.
C6_ProcessedItemsIsBatchLength ==
    \A id \in DOMAIN processed_count :
        BuiltIn(id) =>
            Stream_get_stats(ClassOf(id), processed_count[id]).processed_items
              = (IF slast.op = "process_batch" /\ slast.id = id
                 THEN Len(slast.batch) ELSE 0)

C6_Witness ==
    /\ slast.op = "process_batch"
    /\ slast.id = "SENSOR_001"
    /\ slast.res.kind = "alert"
    /\ Len(slast.batch) = 2
    /\ processed_count["SENSOR_001"] = 2

\* C7: on a batch of readings SensorStream.process_batch returns the alert
\* exactly when some reading has temp > 30 or temp < 0, a missing temp
\* counting as 0; otherwise it returns the summary of the average, which is
\* sum / length, and 0.0 for the empty batch.
TempOf(d) == IF "temp" \in DOMAIN d.m THEN d.m["temp"] ELSE 0

AllMappings(batch) == \A i \in 1..Len(batch) : batch[i].t = "dict"

RECURSIVE TempTotal(_)
TempTotal(batch) ==
    IF batch = <<>> THEN 0 ELSE TempOf(Head(batch)) + TempTotal(Tail(batch))

C7_AlertIffOutOfRange ==
    (/\ slast.op = "process_batch"
     /\ ClassOf(slast.id) = "SensorStream"
     /\ AllMappings(slast.batch)) =>
        LET b == slast.batch
            out == \E i \in 1..Len(b) : TempOf(b[i]) > 30 \/ TempOf(b[i]) < 0
        IN /\ slast.res.kind = "alert" <=> out
           /\ ~out =>
                /\ slast.res.kind = "summary"
                /\ slast.res.count = Len(b)
                /\ b = <<>> => (slast.res.a = 0 /\ slast.res.b = 1)
                /\ b # <<>> => (slast.res.a = TempTotal(b)
                                /\ slast.res.b = Len(b))

C7_Witness ==
    /\ slast.op = "process_batch"
    /\ slast.id = "SENSOR_001"
    /\ slast.batch = <<MapItem(NoMap), Reading(0 - 1)>>
    /\ slast.res.kind = "alert"

\* C8 as claimed: on a batch of mappings filter_data returns, in order,
\* exactly the elements matching the criterion: SensorStream "high" and
\* "high-alert" temp > 30, "large" temp > 15; TransactionStream "height"
\* and "high" buy > 200 or sell > 200, "large" buy > 100 or sell > 100.
FieldOf(d, key) == IF key \in DOMAIN d.m THEN d.m[key] ELSE 0
Temp30(d) == FieldOf(d, "temp") > 30
Temp15(d) == FieldOf(d, "temp") > 15
Trade200(d) == FieldOf(d, "buy") > 200 \/ FieldOf(d, "sell") > 200
Trade100(d) == FieldOf(d, "buy") > 100 \/ FieldOf(d, "sell") > 100

Filtered8 == slast.op = "filter_data" /\ AllMappings(slast.batch)

Selects(expected) == slast.ok /\ slast.out = expected

PassesThrough == slast.ok /\ slast.out = slast.batch

C8_AsClaimed ==
    Filtered8 =>
        /\ (ClassOf(slast.id) = "SensorStream"
            /\ slast.crit \in {"high", "high-alert"})
             => Selects(SelectSeq(slast.batch, Temp30))
        /\ (ClassOf(slast.id) = "SensorStream" /\ slast.crit = "large")
             => Selects(SelectSeq(slast.batch, Temp15))
        /\ (ClassOf(slast.id) = "TransactionStream"
            /\ slast.crit \in {"height", "high"})
             => Selects(SelectSeq(slast.batch, Trade200))
        /\ (ClassOf(slast.id) = "TransactionStream" /\ slast.crit = "large")
             => Selects(SelectSeq(slast.batch, Trade100))

\* C8 amended: SensorStream selects temp > 30 for "high-alert" only and
\* TransactionStream selects buy > 200 or sell > 200 for "high" only; the
\* "large" criteria are as claimed; "high" on a SensorStream and "height"
\* on a TransactionStream return the batch unchanged.
C8_RecognisedCriteriaSelect ==
    Filtered8 =>
        /\ (ClassOf(slast.id) = "SensorStream" /\ slast.crit = "high-alert")
             => Selects(SelectSeq(slast.batch, Temp30))
        /\ (ClassOf(slast.id) = "SensorStream" /\ slast.crit = "large")
             => Selects(SelectSeq(slast.batch, Temp15))
        /\ (ClassOf(slast.id) = "SensorStream" /\ slast.crit = "high")
             => PassesThrough
        /\ (ClassOf(slast.id) = "TransactionStream" /\ slast.crit = "high")
             => Selects(SelectSeq(slast.batch, Trade200))
        /\ (ClassOf(slast.id) = "TransactionStream" /\ slast.crit = "large")
             => Selects(SelectSeq(slast.batch, Trade100))
        /\ (ClassOf(slast.id) = "TransactionStream"
            /\ slast.crit = "height") => PassesThrough

C8_Witness ==
    /\ slast.op = "filter_data"
    /\ slast.id = "TRANS_001"
    /\ slast.crit = "large"
    /\ slast.batch = <<Trade(0, 101), MapItem(NoMap)>>
    /\ slast.out = <<Trade(0, 101)>>

\* C9: filter_data of a SensorStream, TransactionStream or EventStream
\* with a criterion its code does not name (None included) returns the
\* batch it was given and raises nothing, whatever the batch holds.
Recognised(class) ==
    CASE class = "SensorStream" -> {"high-alert", "large"}
      [] class = "TransactionStream" -> {"high", "large"}
      [] class = "EventStream" -> {"errors", "login", "logout"}
      [] OTHER -> {}

C9_UnknownCriterionPassesThrough ==
    (/\ slast.op = "filter_data"
     /\ BuiltIn(slast.id)
     /\ slast.crit \notin Recognised(ClassOf(slast.id))) =>
        (slast.ok /\ slast.exc = "" /\ slast.out = slast.batch)

C9_Witness ==
    /\ slast.op = "filter_data"
    /\ slast.id = "EVENT_001"
    /\ slast.crit = "None"
    /\ slast.batch = <<IntItem, StrItem(<<"error">>)>>
    /\ slast.out = slast.batch

(***************************************************************************)
(* Properties of ex0 / test.py (specification SpecProc).                   *)
(***************************************************************************)
InvalidReportOf(proc) ==
    CASE proc = "NumericProcessor" -> InvalidNumeric
      [] proc = "TextProcessor" -> InvalidText
      [] OTHER -> InvalidLog

IsEmpty(data) ==
    \/ data.t = "list" /\ data.l = <<>>
    \/ data.t = "str" /\ data.s = <<>>

\* C10: in both variants and for each processor, process returns the
\* invalid-data report of the processor exactly when validate is false,
\* the "data empty" report exactly when the data is valid and empty, a
\* computed report otherwise, and never raises.
C10_ReportMatchesValidation ==
    plast.op = "process" =>
        LET valid == Processor_validate(plast.proc, plast.data)
        IN /\ plast.report = InvalidReportOf(plast.proc) <=> ~valid
           /\ plast.report = DataEmpty <=> (valid /\ IsEmpty(plast.data))
           /\ (valid /\ ~IsEmpty(plast.data)) => plast.path = "computed"
           /\ ~plast.escaped

\* C11: NumericProcessor.validate returns True exactly when the value is a
\* single int or float, or a list whose every element is an int or float:
\* False for a bool, for a list containing a bool and for every other type,
\* True for the empty list.
C11_NumericValidate ==
    (plast.op = "validate" /\ plast.proc = "NumericProcessor") =>
        /\ plast.path \in {"True", "False"}
        /\ plast.path = "True" <=>
              \/ plast.data.t \in {"int", "float"}
              \/ /\ plast.data.t = "list"
                 /\ \A i \in 1..Len(plast.data.l) :
                       plast.data.l[i].k \in {"int", "float"}
        /\ plast.data.t = "bool" => plast.path = "False"
        /\ (/\ plast.data.t = "list"
            /\ \E i \in 1..Len(plast.data.l) : plast.data.l[i].k = "bool")
              => plast.path = "False"
        /\ plast.data.t \in {"none", "str"} => plast.path = "False"
        /\ (plast.data.t = "list" /\ plast.data.l = <<>>)
              => plast.path = "True"

C11_Witness ==
    /\ plast.op = "validate"
    /\ plast.proc = "NumericProcessor"
    /\ plast.data = Datum("list", 0, <<Elem("int", 2), Elem("bool", 1)>>, <<>>)
    /\ plast.path = "False"

(***************************************************************************)
(* Further properties of ex2 (specification Spec).                         *)
(***************************************************************************)
\* C13: JSONAdapter.process on a pipeline with the stages Input, Transform,
\* Output, given a record that contains a value field, always makes the
\* Output stage print the temperature phrasing with the value of the
\* record as it was handed in.
C13_ValueRecordRendered ==
    (/\ last.op = "process"
     /\ cls = "JSONAdapter"
     /\ stages = ThreeStages
     /\ last.input.t = "dict"
     /\ "value" \in DOMAIN last.input.d) =>
        \E j \in 1..Len(last.run.calls) :
           /\ last.run.calls[j].stage = "Output"
           /\ last.run.calls[j].method = "display"
           /\ last.run.calls[j].ok
           /\ OutputStage_printed(
                 LastCompleted(SubSeq(last.run.calls, 1, j - 1),
                               last.arg)).phrase
                = "Output: Processed temperature reading: "
           /\ OutputStage_printed(
                 LastCompleted(SubSeq(last.run.calls, 1, j - 1),
                               last.arg)).shown
                = last.input.d["value"]

\* C14: success + errors is the number of calls that entered execute, and
\* in every step that leaves the stage list (of length n) alone, each run
\* that succeeded adds exactly n to stagesexecuted and each run that failed
\* adds fewer than n: the growth of stagesexecuted lies between n times the
\* growth of success and that plus (n - 1) times the growth of errors.
C14_CountersAccountForRuns ==
    [][/\ stats'.success + stats'.errors = execCount'
       /\ stages' = stages =>
            /\ (stats'.success - stats.success)
                 + (stats'.errors - stats.errors) = execCount' - execCount
            /\ Len(stages) * (stats'.success - stats.success)
                 <= stats'.stagesexecuted - stats.stagesexecuted
            /\ stats'.stagesexecuted - stats.stagesexecuted
                 <= Len(stages) * (stats'.success - stats.success)
                    + (Len(stages) - 1) * (stats'.errors - stats.errors)]_vars

C14_Witness ==
    /\ last.op = "process"
    /\ stages = ThreeStages
    /\ execCount = 2
    /\ stats = [stagesexecuted |-> 5, success |-> 1, errors |-> 1]

\* C15: the display flag has no effect on processing: a run of execute
\* returns the value, and leaves the counters, that the same run with the
\* opposite flag would have returned and left.
C15_DisplayFlagHasNoEffect ==
    [][SingleRun(last') =>
         /\ last'.ret
              = execute(stages, stats, last'.arg, ~last'.flag).ret
         /\ stats'
              = execute(stages, stats, last'.arg, ~last'.flag).stats]_vars

(***************************************************************************)
(* Further properties of ex0 / test.py (specification SpecProc).           *)
(***************************************************************************)
\* the maximal runs of characters that are not whitespace, counted by the
\* position each run ends at
WordRuns(str) ==
    Cardinality({i \in 1..Len(str) :
        /\ str[i] \notin Whitespace
        /\ (i = Len(str) \/ str[i + 1] \in Whitespace)})

\* C12: for every non-empty str, TextProcessor.process of both variants
\* reports a character count equal to the length of the str and a word
\* count equal to the number of maximal whitespace-separated runs of
\* non-whitespace characters (so the two variants report the same counts).
C12_TextCounts ==
    (/\ plast.op = "process"
     /\ plast.proc = "TextProcessor"
     /\ plast.data.t = "str"
     /\ plast.data.s # <<>>) =>
        /\ plast.path = "computed"
        /\ plast.report.n1 = Len(plast.data.s)
        /\ plast.report.n2 = WordRuns(plast.data.s)

====
